---------------------------- MODULE Spec2Model ----------------------------
(***************************************************************************)
(* Model of the result-extraction pipeline of the Delhi High Court case    *)
(* fetcher (project/scraper.py, CourtScraper._parse_case_results and the   *)
(* four parsing strategies, the link extractor and the error detector).    *)
(*                                                                         *)
(* A document is the parsed page (the BeautifulSoup tree) reduced to the   *)
(* elements the code queries: tables, div/span blocks, script elements,    *)
(* anchors and loose text lines.  Texts are strings and every text         *)
(* operation of the code (strip, lower, substring test, regular            *)
(* expression, JSON decoding, urljoin) is computed on the characters.      *)
(***************************************************************************)
EXTENDS Integers, Sequences, FiniteSets, TLC

(***************************************************************************)
(* Text primitives: str.lower, str.strip, "in", str.endswith, str.split.   *)
(***************************************************************************)
Upper == <<"A","B","C","D","E","F","G","H","I","J","K","L","M",
           "N","O","P","Q","R","S","T","U","V","W","X","Y","Z">>

LowerLetters == <<"a","b","c","d","e","f","g","h","i","j","k","l","m",
                  "n","o","p","q","r","s","t","u","v","w","x","y","z">>

Digits == {"0","1","2","3","4","5","6","7","8","9"}

Whitespace == {" ", "\n", "\t"}

CharAt(s, i) == SubSeq(s, i, i)

LowerMap ==
    [c \in {Upper[k] : k \in 1..26} |-> LowerLetters[CHOOSE k \in 1..26 : Upper[k] = c]]

LowerChar(c) == IF c \in DOMAIN LowerMap THEN LowerMap[c] ELSE c

RECURSIVE Lower(_)
Lower(s) ==
    IF Len(s) = 0 THEN ""
    ELSE IF Len(s) = 1 THEN LowerChar(s)
    ELSE LET half == Len(s) \div 2 IN
         Lower(SubSeq(s, 1, half)) \o Lower(SubSeq(s, half + 1, Len(s)))

RECURSIVE LStrip(_)
LStrip(s) ==
    IF Len(s) > 0 /\ CharAt(s, 1) \in Whitespace
    THEN LStrip(SubSeq(s, 2, Len(s)))
    ELSE s

RECURSIVE RStrip(_)
RStrip(s) ==
    IF Len(s) > 0 /\ CharAt(s, Len(s)) \in Whitespace
    THEN RStrip(SubSeq(s, 1, Len(s) - 1))
    ELSE s

Strip(s) == RStrip(LStrip(s))

\* p in s
Contains(s, p) ==
    \E i \in 1..(Len(s) - Len(p) + 1) : SubSeq(s, i, i + Len(p) - 1) = p

EndsWith(s, p) ==
    Len(s) >= Len(p) /\ SubSeq(s, Len(s) - Len(p) + 1, Len(s)) = p

StartsWith(s, p) ==
    Len(s) >= Len(p) /\ SubSeq(s, 1, Len(p)) = p

\* position of the first occurrence of the character c in s, 0 when absent
IndexOf(s, c) ==
    IF \E i \in 1..Len(s) : CharAt(s, i) = c
    THEN CHOOSE i \in 1..Len(s) :
             CharAt(s, i) = c /\ \A j \in 1..(i - 1) : CharAt(s, j) # c
    ELSE 0

\* position of the last occurrence of the character c in s, 0 when absent
LastIndexOf(s, c) ==
    IF \E i \in 1..Len(s) : CharAt(s, i) = c
    THEN CHOOSE i \in 1..Len(s) :
             CharAt(s, i) = c /\ \A j \in (i + 1)..Len(s) : CharAt(s, j) # c
    ELSE 0

\* s.split('\n')
RECURSIVE SplitLines(_)
SplitLines(s) ==
    LET n == IndexOf(s, "\n") IN
    IF n = 0 THEN <<s>>
    ELSE <<SubSeq(s, 1, n - 1)>> \o SplitLines(SubSeq(s, n + 1, Len(s)))

\* "\n".join(lines)
RECURSIVE JoinLines(_)
JoinLines(lines) ==
    IF Len(lines) = 0 THEN ""
    ELSE IF Len(lines) = 1 THEN lines[1]
    ELSE lines[1] \o "\n" \o JoinLines(Tail(lines))

RECURSIVE Flatten(_)
Flatten(seqs) ==
    IF Len(seqs) = 0 THEN <<>> ELSE Head(seqs) \o Flatten(Tail(seqs))

(***************************************************************************)
(* The date pattern \d{1,2}[-/]\d{1,2}[-/]\d{4} of re.search / re.findall: *)
(* leftmost match, each \d{1,2} greedy.                                    *)
(***************************************************************************)
\* A match result is <<>> (no match) or <<m>> (the matched text), as the list
\* re.findall returns cut to its first element.
IsDigitAt(s, i) == i >= 1 /\ i <= Len(s) /\ CharAt(s, i) \in Digits

IsSepAt(s, i) == i >= 1 /\ i <= Len(s) /\ CharAt(s, i) \in {"-", "/"}

\* the pattern matches at i with a day of a digits and a month of b digits
DateMatchesAt(s, i, a, b) ==
    /\ \A k \in 0..(a - 1) : IsDigitAt(s, i + k)
    /\ IsSepAt(s, i + a)
    /\ \A k \in 1..b : IsDigitAt(s, i + a + k)
    /\ IsSepAt(s, i + a + b + 1)
    /\ \A k \in 1..4 : IsDigitAt(s, i + a + b + 1 + k)

\* the backtracking order of the two greedy \d{1,2}: (2,2) (2,1) (1,2) (1,1)
DateShapes == << <<2, 2>>, <<2, 1>>, <<1, 2>>, <<1, 1>> >>

DateAt(s, i) ==
    IF \E n \in 1..4 : DateMatchesAt(s, i, DateShapes[n][1], DateShapes[n][2])
    THEN LET n == CHOOSE m \in 1..4 :
                     /\ DateMatchesAt(s, i, DateShapes[m][1], DateShapes[m][2])
                     /\ \A l \in 1..(m - 1) :
                            ~DateMatchesAt(s, i, DateShapes[l][1], DateShapes[l][2])
         IN  <<SubSeq(s, i, i + DateShapes[n][1] + DateShapes[n][2] + 5)>>
    ELSE <<>>

\* re.search(date_pattern, s): <<the leftmost match>> or <<>>
FirstDate(s) ==
    IF \E i \in 1..Len(s) : DateAt(s, i) # <<>>
    THEN LET i == CHOOSE j \in 1..Len(s) :
                     /\ DateAt(s, j) # <<>>
                     /\ \A l \in 1..(j - 1) : DateAt(s, l) = <<>>
         IN  DateAt(s, i)
    ELSE <<>>

(***************************************************************************)
(* urljoin(base_url, href) for the base "https://delhihighcourt.nic.in/"   *)
(* (scraper.py line 22): a reference with a scheme of its own is returned  *)
(* as it is, a network-path reference takes the base's scheme, a rooted    *)
(* path the base's scheme and host, any other reference is appended to the *)
(* base's directory "/".  References with dot segments are not modelled.   *)
(***************************************************************************)
BaseScheme == "https"

BaseHost == "delhihighcourt.nic.in"

base_url == BaseScheme \o "://" \o BaseHost \o "/"

SchemeChars ==
    {LowerLetters[k] : k \in 1..26} \cup {Upper[k] : k \in 1..26}
        \cup Digits \cup {"+", "-", "."}

\* urlsplit: the text before the first ":" is a scheme when it starts with a
\* letter and holds scheme characters only
HasScheme(url) ==
    LET n == IndexOf(url, ":") IN
    /\ n > 1
    /\ CharAt(url, 1) \notin Digits \cup {"+", "-", "."}
    /\ \A k \in 1..(n - 1) : CharAt(url, k) \in SchemeChars

SchemeOf(url) == Lower(SubSeq(url, 1, IndexOf(url, ":") - 1))

AfterScheme(url) == SubSeq(url, IndexOf(url, ":") + 1, Len(url))

urljoin(base, href) ==
    IF href = "" THEN base
    ELSE IF HasScheme(href) /\ SchemeOf(href) # BaseScheme THEN href
    ELSE LET ref == IF HasScheme(href) THEN AfterScheme(href) ELSE href IN
         IF StartsWith(ref, "//") THEN BaseScheme \o ":" \o ref
         ELSE IF StartsWith(ref, "/") THEN BaseScheme \o "://" \o BaseHost \o ref
         ELSE base \o ref

\* an absolute URL: a scheme, and for the base's scheme a host after "//"
IsAbsolute(url) ==
    /\ HasScheme(url)
    /\ SchemeOf(url) = BaseScheme =>
           /\ StartsWith(AfterScheme(url), "//")
           /\ Len(AfterScheme(url)) > 2
           /\ CharAt(AfterScheme(url), 3) # "/"

(***************************************************************************)
(* json.loads on the subset of JSON the documents of this model use:       *)
(* objects, arrays and strings without escapes.  A decoded string is a     *)
(* string, an array a sequence, an object a function from its keys (the    *)
(* last of two equal keys wins, as in Python).  A result <<>> stands for   *)
(* json.JSONDecodeError, <<v>> for the decoded value v.                    *)
(***************************************************************************)
Quote == "\""

ParseFail == [ok |-> FALSE, val |-> <<>>, next |-> 0]

RECURSIVE SkipWs(_, _)
SkipWs(s, i) ==
    IF i <= Len(s) /\ CharAt(s, i) \in Whitespace THEN SkipWs(s, i + 1) ELSE i

\* the character at i, "" past the end
Peek(s, i) == IF i >= 1 /\ i <= Len(s) THEN CharAt(s, i) ELSE ""

ParseString(s, i) ==
    LET rest == SubSeq(s, i + 1, Len(s))
        n    == IndexOf(rest, Quote)
    IN  IF Peek(s, i) # Quote \/ n = 0 THEN ParseFail
        ELSE [ok |-> TRUE, val |-> SubSeq(rest, 1, n - 1), next |-> i + n + 1]

\* the dict built from the members parsed so far
PairsToDict(pairs) ==
    [k \in {pairs[n][1] : n \in 1..Len(pairs)} |->
        LET last == CHOOSE n \in 1..Len(pairs) :
                        /\ pairs[n][1] = k
                        /\ \A m \in (n + 1)..Len(pairs) : pairs[m][1] # k
        IN  pairs[last][2]]

RECURSIVE ParseValue(_, _), ParseElements(_, _, _), ParseMembers(_, _, _)
ParseValue(s, i0) ==
    LET i == SkipWs(s, i0) IN
    CASE Peek(s, i) = Quote -> ParseString(s, i)
      [] Peek(s, i) = "[" ->
            IF Peek(s, SkipWs(s, i + 1)) = "]"
            THEN [ok |-> TRUE, val |-> <<>>, next |-> SkipWs(s, i + 1) + 1]
            ELSE ParseElements(s, i + 1, <<>>)
      [] Peek(s, i) = "{" ->
            IF Peek(s, SkipWs(s, i + 1)) = "}"
            THEN [ok |-> TRUE, val |-> PairsToDict(<<>>), next |-> SkipWs(s, i + 1) + 1]
            ELSE ParseMembers(s, i + 1, <<>>)
      [] OTHER -> ParseFail

\* the elements of an array from i on, up to and including its "]"
ParseElements(s, i, acc) ==
    LET v == ParseValue(s, i) IN
    IF ~v.ok THEN ParseFail
    ELSE LET j == SkipWs(s, v.next) IN
         CASE Peek(s, j) = "," -> ParseElements(s, j + 1, Append(acc, v.val))
           [] Peek(s, j) = "]" -> [ok |-> TRUE, val |-> Append(acc, v.val), next |-> j + 1]
           [] OTHER -> ParseFail

\* the members of an object from i on, up to and including its "}"
ParseMembers(s, i, acc) ==
    LET k == ParseString(s, SkipWs(s, i)) IN
    IF ~k.ok \/ Peek(s, SkipWs(s, k.next)) # ":" THEN ParseFail
    ELSE LET v == ParseValue(s, SkipWs(s, k.next) + 1) IN
         IF ~v.ok THEN ParseFail
         ELSE LET j   == SkipWs(s, v.next)
                  all == Append(acc, <<k.val, v.val>>)
              IN  CASE Peek(s, j) = "," -> ParseMembers(s, j + 1, all)
                    [] Peek(s, j) = "}" ->
                          [ok |-> TRUE, val |-> PairsToDict(all), next |-> j + 1]
                    [] OTHER -> ParseFail

json_loads(text) ==
    LET r == ParseValue(text, 1) IN
    IF r.ok /\ SkipWs(text, r.next) = Len(text) + 1 THEN <<r.val>> ELSE <<>>

\* re.search(r'\{.*\}', text): from the first "{" that has a "}" after it on
\* its line to the last "}" of that line; <<>> when there is none.  The
\* script texts of this model are single lines.
BraceMatch(text) ==
    LET a == IndexOf(text, "{")
        b == LastIndexOf(text, "}")
    IN  IF a > 0 /\ b > a THEN <<SubSeq(text, a, b)>> ELSE <<>>

(***************************************************************************)
(* Documents.  A document is a record                                      *)
(*   tables  : the <table> elements, each the sequence of its <tr> rows,   *)
(*             each row the sequence of the raw texts of its td/th cells;  *)
(*   blocks  : the div/span elements, [class, text];                       *)
(*   scripts : the <script> elements, each <<>> (script.string is None)    *)
(*             or <<text>>;                                                *)
(*   anchors : the <a> elements, [href, text], href <<>> when the anchor   *)
(*             has no href attribute, <<h>> otherwise;                     *)
(*   body    : the loose text lines of the page;                           *)
(*   faults  : the strategies (by position 1..4) in which a DOM call       *)
(*             raises on this document.                                    *)
(* The page is laid out tables, blocks, anchors, loose text, every text    *)
(* node on a line of its own; script text is no part of get_text().        *)
(***************************************************************************)
NotAvailable == "Not available"

Success(data) == [success |-> TRUE, data |-> data]

\* Variant of Failure: a failure that also carries a data entry.
HybridFailure(reason) == [success |-> FALSE, error |-> reason, data |-> <<>>]

Failure(reason) == [success |-> FALSE, error |-> reason]

\* str(e) of an exception raised inside a strategy
ExcText == "DOM access failed"

Rows(doc) == Flatten(doc.tables)

\* element.get_text(strip=True) of an element holding one text node
get_text_strip(raw) == Strip(raw)

\* soup.get_text()
get_text(doc) ==
    JoinLines(Flatten(Rows(doc))
              \o [n \in 1..Len(doc.blocks) |-> doc.blocks[n].text]
              \o [n \in 1..Len(doc.anchors) |-> doc.anchors[n].text]
              \o doc.body)

(***************************************************************************)
(* Link extractor: CourtScraper._extract_pdf_links.                        *)
(***************************************************************************)
\* Variant of IsPdfHref: only the ending of the reference is tested.
IsPdfHrefSuffixOnly(href) == EndsWith(Lower(href), ".pdf")

\* line 499
IsPdfHref(href) ==
    EndsWith(Lower(href), ".pdf") \/ Contains(Lower(href), "pdf")

\* Variant of LinkOf: the reference is kept as written in the document.
LinkOfRaw(anchor) ==
    [url  |-> anchor.href[1],
     text |-> IF get_text_strip(anchor.text) # ""
              THEN get_text_strip(anchor.text) ELSE "Download PDF"]

\* lines 499-505
LinkOf(anchor) ==
    [url  |-> urljoin(base_url, anchor.href[1]),
     text |-> IF get_text_strip(anchor.text) # ""
              THEN get_text_strip(anchor.text) ELSE "Download PDF"]

RECURSIVE PdfLinksFrom(_, _)
PdfLinksFrom(anchors, n) ==
    IF n > Len(anchors) THEN <<>>
    ELSE (IF anchors[n].href # <<>> /\ IsPdfHref(anchors[n].href[1])
          THEN <<LinkOf(anchors[n])>> ELSE <<>>)
         \o PdfLinksFrom(anchors, n + 1)

extract_pdf_links(doc) == PdfLinksFrom(doc.anchors, 1)

(***************************************************************************)
(* Every strategy builds its record from these defaults.                   *)
(***************************************************************************)
NewCaseData ==
    [parties      |-> NotAvailable,
     filing_date  |-> NotAvailable,
     hearing_date |-> NotAvailable,
     pdf_links    |-> <<>>]

(***************************************************************************)
(* Structured-table strategy: CourtScraper._parse_table_structure.         *)
(***************************************************************************)
IsHeaderRow(cells) ==
    /\ Len(cells) > 0
    /\ \E c \in 1..Len(cells) : Contains(Lower(get_text_strip(cells[c])), "case no")

\* position of the header row in rows, 0 when no row qualifies
HeaderRow(rows) ==
    IF \E r \in 1..Len(rows) : IsHeaderRow(rows[r])
    THEN CHOOSE r \in 1..Len(rows) :
             IsHeaderRow(rows[r]) /\ \A q \in 1..(r - 1) : ~IsHeaderRow(rows[q])
    ELSE 0

HeaderTexts(cells) == [c \in 1..Len(cells) |-> Lower(get_text_strip(cells[c]))]

IsCaseNoHeader(h) == Contains(h, "case no")

IsPartyHeader(h) == ~IsCaseNoHeader(h) /\ Contains(h, "party")

IsDateHeader(h) ==
    /\ ~IsCaseNoHeader(h)
    /\ ~Contains(h, "party")
    /\ Contains(h, "date")
    /\ (Contains(h, "judgment") \/ Contains(h, "order"))

\* The loop of lines 381-387 keeps the last header of each kind: the index,
\* counted from 0 as in the code, of the last TRUE of flags, -1 when none.
LastIdx(flags) ==
    IF \E i \in 1..Len(flags) : flags[i]
    THEN (CHOOSE i \in 1..Len(flags) :
              flags[i] /\ \A k \in (i + 1)..Len(flags) : ~flags[k]) - 1
    ELSE -1

Max3(a, b, c) ==
    IF a >= b /\ a >= c THEN a ELSE IF b >= c THEN b ELSE c

\* Variant of DataRowStep: the column indices are used as if they counted
\* the cells from 1.
DataRowStepShifted(cells, header_cells, idx, cd) ==
    IF cells = header_cells THEN cd
    ELSE IF Len(cells) >= Max3(idx.case_no, idx.party, idx.date) + 1
    THEN LET withParty ==
                 IF idx.party >= 1 /\ idx.party < Len(cells)
                 THEN [cd EXCEPT !.parties = get_text_strip(cells[idx.party])]
                 ELSE cd
         IN  IF idx.date >= 1 /\ idx.date < Len(cells)
             THEN [withParty EXCEPT !.filing_date = get_text_strip(cells[idx.date])]
             ELSE withParty
    ELSE cd

\* one iteration of the data-row loop, lines 390-398
DataRowStep(cells, header_cells, idx, cd) ==
    IF cells = header_cells THEN cd
    ELSE IF Len(cells) >= Max3(idx.case_no, idx.party, idx.date) + 1
    THEN LET withParty ==
                 IF idx.party >= 0 /\ idx.party < Len(cells)
                 THEN [cd EXCEPT !.parties = get_text_strip(cells[idx.party + 1])]
                 ELSE cd
         IN  IF idx.date >= 0 /\ idx.date < Len(cells)
             THEN [withParty EXCEPT !.filing_date = get_text_strip(cells[idx.date + 1])]
             ELSE withParty
    ELSE cd

\* one iteration of the key/value loop, lines 401-412
KeyValueStep(cells, cd) ==
    IF Len(cells) >= 2
    THEN LET key   == Lower(get_text_strip(cells[1]))
             value == get_text_strip(cells[2])
         IN  IF \/ Contains(key, "parties") \/ Contains(key, "petitioner")
                \/ Contains(key, "plaintiff") \/ Contains(key, "vs")
             THEN [cd EXCEPT !.parties = value]
             ELSE IF Contains(key, "filing") /\ Contains(key, "date")
             THEN [cd EXCEPT !.filing_date = value]
             ELSE IF Contains(key, "hearing") \/ Contains(key, "next")
             THEN [cd EXCEPT !.hearing_date = value]
             ELSE cd
    ELSE cd

RECURSIVE DataRowsFrom(_, _, _, _, _)
DataRowsFrom(rows, n, header_cells, idx, cd) ==
    IF n > Len(rows) THEN cd
    ELSE DataRowsFrom(rows, n + 1, header_cells, idx,
                      DataRowStep(rows[n], header_cells, idx, cd))

RECURSIVE KeyValueRowsFrom(_, _, _)
KeyValueRowsFrom(rows, n, cd) ==
    IF n > Len(rows) THEN cd
    ELSE KeyValueRowsFrom(rows, n + 1, KeyValueStep(rows[n], cd))

\* lines 363-412: the record after the row loops
TableScan(doc, cd) ==
    LET rows == Rows(doc)
        h    == HeaderRow(rows)
    IN  IF h > 0
        THEN LET headers == HeaderTexts(rows[h])
                 n == Len(headers)
                 idx == [case_no |-> LastIdx([c \in 1..n |-> IsCaseNoHeader(headers[c])]),
                         party   |-> LastIdx([c \in 1..n |-> IsPartyHeader(headers[c])]),
                         date    |-> LastIdx([c \in 1..n |-> IsDateHeader(headers[c])])]
             IN  DataRowsFrom(rows, 1, rows[h], idx, cd)
        ELSE KeyValueRowsFrom(rows, 1, cd)

\* lines 418-427
TableDecide(cd) ==
    IF \/ cd.parties # NotAvailable
       \/ cd.filing_date # NotAvailable
       \/ Len(cd.pdf_links) > 0
    THEN Success(cd)
    ELSE Failure("No data found in table structure")

(***************************************************************************)
(* Labeled-block strategy: CourtScraper._parse_div_structure.              *)
(***************************************************************************)
\* class_=re.compile(r'case|info|detail|party', re.I)
ClassWords == {"case", "info", "detail", "party"}

IsInfoBlock(block) ==
    \E w \in ClassWords : Contains(Lower(block.class), w)

\* one iteration of the loop of lines 441-448
BlockStep(block, cd) ==
    LET text == get_text_strip(block.text) IN
    IF ~IsInfoBlock(block) THEN cd
    ELSE IF Contains(Lower(text), "vs") \/ Contains(Lower(text), "versus")
    THEN [cd EXCEPT !.parties = text]
    ELSE IF Contains(Lower(text), "filed") \/ Contains(Lower(text), "filing")
    THEN IF FirstDate(text) # <<>>
         THEN [cd EXCEPT !.filing_date = FirstDate(text)[1]]
         ELSE cd
    ELSE cd

RECURSIVE BlocksFrom(_, _, _)
BlocksFrom(blocks, n, cd) ==
    IF n > Len(blocks) THEN cd
    ELSE BlocksFrom(blocks, n + 1, BlockStep(blocks[n], cd))

DivScan(doc, cd) == BlocksFrom(doc.blocks, 1, cd)

\* lines 454-460
DivDecide(cd) ==
    IF cd.parties # NotAvailable \/ Len(cd.pdf_links) > 0
    THEN Success(cd)
    ELSE Failure("No data found in div structure")

(***************************************************************************)
(* Embedded-data strategy: CourtScraper._parse_json_data.                  *)
(***************************************************************************)
JsonKeys == {"case", "parties", "filing"}

\* dict.get(key, default)
DictGet(data, key, default) ==
    IF key \in DOMAIN data THEN data[key] ELSE default

\* Variant of JsonCaseData: the dates are looked up under the short keys.
JsonCaseDataShortKeys(data) ==
    [parties      |-> DictGet(data, "parties", NotAvailable),
     filing_date  |-> DictGet(data, "filing", NotAvailable),
     hearing_date |-> DictGet(data, "hearing", NotAvailable),
     pdf_links    |-> DictGet(data, "pdf_links", <<>>)]

\* lines 476-481
JsonCaseData(data) ==
    [parties      |-> DictGet(data, "parties", NotAvailable),
     filing_date  |-> DictGet(data, "filing_date", NotAvailable),
     hearing_date |-> DictGet(data, "hearing_date", NotAvailable),
     pdf_links    |-> DictGet(data, "pdf_links", <<>>)]

\* Variant of ScriptStep: a text that does not decode ends the strategy.
ScriptStepStops(script) ==
    IF script = <<>> \/ script[1] = "" THEN <<>>
    ELSE IF ~(Contains(Lower(script[1]), "case") \/ Contains(Lower(script[1]), "data"))
    THEN <<>>
    ELSE IF BraceMatch(script[1]) = <<>> THEN <<>>
    ELSE LET decoded == json_loads(BraceMatch(script[1])[1]) IN
         IF decoded = <<>> THEN <<Failure("No JSON data found")>>
         ELSE IF DOMAIN decoded[1] \cap JsonKeys # {}
         THEN <<Success(JsonCaseData(decoded[1]))>>
         ELSE <<>>

\* the body of the loop of lines 467-487 for one script element: <<outcome>>
\* when the script makes the strategy return, <<>> when the loop goes on
ScriptStep(script) ==
    IF script = <<>> \/ script[1] = "" THEN <<>>
    ELSE IF ~(Contains(Lower(script[1]), "case") \/ Contains(Lower(script[1]), "data"))
    THEN <<>>
    ELSE IF BraceMatch(script[1]) = <<>> THEN <<>>
    ELSE LET decoded == json_loads(BraceMatch(script[1])[1]) IN
         IF decoded = <<>> THEN <<>>
         ELSE IF DOMAIN decoded[1] \cap JsonKeys # {}
         THEN <<Success(JsonCaseData(decoded[1]))>>
         ELSE <<>>

RECURSIVE ScriptsFrom(_, _)
ScriptsFrom(scripts, n) ==
    IF n > Len(scripts) THEN Failure("No JSON data found")
    ELSE IF ScriptStep(scripts[n]) # <<>> THEN ScriptStep(scripts[n])[1]
    ELSE ScriptsFrom(scripts, n + 1)

JsonScan(doc) == ScriptsFrom(doc.scripts, 1)

(***************************************************************************)
(* Free-text fallback strategy: CourtScraper._alternative_parsing.         *)
(***************************************************************************)
DateWords == {"filed", "filing", "date"}

\* one iteration of the loop of lines 544-556
LineStep(raw, cd) ==
    LET line == Strip(raw) IN
    IF line # "" /\ Len(line) > 10
    THEN IF Contains(Lower(line), "vs") \/ Contains(Lower(line), "versus")
         THEN [cd EXCEPT !.parties = line]
         ELSE IF \E w \in DateWords : Contains(Lower(line), w)
         THEN IF FirstDate(line) # <<>>
              THEN [cd EXCEPT !.filing_date = FirstDate(line)[1]]
              ELSE cd
         ELSE cd
    ELSE cd

RECURSIVE LinesFrom(_, _, _)
LinesFrom(lines, n, cd) ==
    IF n > Len(lines) THEN cd
    ELSE LinesFrom(lines, n + 1, LineStep(lines[n], cd))

AltScan(doc, cd) == LinesFrom(SplitLines(get_text(doc)), 1, cd)

\* lines 562-572
AltDecide(cd) ==
    IF cd.parties # NotAvailable \/ Len(cd.pdf_links) > 0
    THEN Success(cd)
    ELSE Failure("No case information found")

(***************************************************************************)
(* Error-signal detector: CourtScraper._check_for_errors.                  *)
(***************************************************************************)
\* Variant of error_messages: the phrases in another order.
ReorderedMessages ==
    <<"please try again", "no data", "no case found", "not available", "error",
      "invalid", "no record", "not found">>

\* lines 514-517
error_messages ==
    <<"not found", "no record", "invalid", "error", "not available",
      "no case found", "no data", "please try again">>

\* Variant of CheckForErrors: a page without any error phrase is reported as
\* a Success with the default record.
CheckForErrorsLenient(doc) ==
    LET page_text == Lower(get_text(doc)) IN
    IF \E n \in 1..Len(error_messages) : Contains(page_text, error_messages[n])
    THEN LET n == CHOOSE m \in 1..Len(error_messages) :
                     /\ Contains(page_text, error_messages[m])
                     /\ \A l \in 1..(m - 1) : ~Contains(page_text, error_messages[l])
         IN  Failure("Court website returned: " \o error_messages[n])
    ELSE Success(NewCaseData)

CheckForErrors(doc) ==
    LET page_text == Lower(get_text(doc)) IN
    IF \E n \in 1..Len(error_messages) : Contains(page_text, error_messages[n])
    THEN LET n == CHOOSE m \in 1..Len(error_messages) :
                     /\ Contains(page_text, error_messages[m])
                     /\ \A l \in 1..(m - 1) : ~Contains(page_text, error_messages[l])
         IN  Failure("Court website returned: " \o error_messages[n])
    ELSE Failure("No case information found on the page")

(***************************************************************************)
(* The pipeline as a function of the document: what one undisturbed call   *)
(* of each strategy, and of _parse_case_results, returns.                  *)
(***************************************************************************)
AttachLinks(doc, cd) == [cd EXCEPT !.pdf_links = extract_pdf_links(doc)]

parse_table_structure(doc) ==
    IF doc.tables = <<>> THEN Failure("No tables found")
    ELSE TableDecide(AttachLinks(doc, TableScan(doc, NewCaseData)))

parse_div_structure(doc) == DivDecide(AttachLinks(doc, DivScan(doc, NewCaseData)))

parse_json_data(doc) ==
    IF "json" \in doc.faults THEN Failure("No JSON data found") ELSE JsonScan(doc)

alternative_parsing(doc) ==
    IF "alt" \in doc.faults THEN Failure("Alternative parsing failed: " \o ExcText)
    ELSE AltDecide(AttachLinks(doc, AltScan(doc, NewCaseData)))

\* Variant of parsing_strategies: the first two strategies swapped.
SwappedStrategies == <<"div", "table", "json", "alt">>

\* lines 319-324
parsing_strategies == <<"table", "div", "json", "alt">>

\* strategy(soup): <<>> when the call raises, <<outcome>> when it returns
StrategyResult(name, doc) ==
    CASE name = "table" ->
            IF "table" \in doc.faults THEN <<>> ELSE <<parse_table_structure(doc)>>
      [] name = "div" ->
            IF "div" \in doc.faults THEN <<>> ELSE <<parse_div_structure(doc)>>
      [] name = "json" -> <<parse_json_data(doc)>>
      [] name = "alt" -> <<alternative_parsing(doc)>>

Succeeded(result) == result # <<>> /\ result[1].success

RECURSIVE StrategiesFrom(_, _)
StrategiesFrom(doc, n) ==
    IF n > Len(parsing_strategies) THEN CheckForErrors(doc)
    ELSE IF Succeeded(StrategyResult(parsing_strategies[n], doc))
    THEN StrategyResult(parsing_strategies[n], doc)[1]
    ELSE StrategiesFrom(doc, n + 1)

parse_case_results(doc) ==
    IF "page" \in doc.faults
    THEN Failure("Failed to parse case results: " \o ExcText)
    ELSE StrategiesFrom(doc, 1)

(***************************************************************************)
(* The documents of the model: one choice per kind of element, at most     *)
(* MaxFeatures kinds of element present in one document.                   *)
(***************************************************************************)
MaxFeatures == 2

HeaderCells == <<"Case No", " Party ", "Date of Order">>

TableChoices ==
    { <<>>,
      << <<>> >>,
      << <<HeaderCells, <<"X/1/2024", "A vs B", "01-02-2024">> >> >>,
      << << <<"W/9/1999", "Early vs Row", "09-09-1999">>, HeaderCells, HeaderCells >> >>,
      << << <<"Parties", "A vs B">>, <<"Filing Date", "01-02-2024">> >>,
         << <<"Next Hearing", "05-03-2024">> >> >>,
      << << <<" Date of Next Hearing ", "05-03-2024">> >> >>,
      << << <<"Court", "Delhi">>, <<"Bench">> >> >>,
      << << <<"Case No", "Status">>, <<"X/1/2024", "Not available">> >> >> }

BlockChoices ==
    { <<>>,
      <<[class |-> "Case-Info", text |-> " A vs B "]>>,
      <<[class |-> "detail", text |-> "Filed on 01-02-2024"]>>,
      <<[class |-> "party", text |-> "A versus B filed 1/2/2024"],
        [class |-> "info", text |-> "Filing pending"]>>,
      <<[class |-> "footer", text |-> "A vs B"]>> }

ScriptChoices ==
    { <<>>,
      << <<"var data = {\"parties\":\"P vs Q\",\"filing_date\":\"2024-01-01\"};">> >>,
      << <<"var caseInfo = {\"case\":\"X/1/2024\"};">> >>,
      << <<>>, <<"var data = {oops};">>,
         <<"var data = {\"parties\":\"P vs Q\",\"hearing_date\":\"05-03-2024\"};">> >>,
      << <<"var data = {\"filing\":\"x\",\"pdf_links\":[{\"url\":\"/o.pdf\",\"text\":\"O\"}]};">> >>,
      << <<"var data = {\"foo\":\"bar\"};">>, <<"init({\"parties\":\"P\"});">> >> }

AnchorChoices ==
    { <<>>,
      <<[href |-> <<"/docs/order1.pdf">>, text |-> "Order"]>>,
      <<[href |-> <<"/about.html">>, text |-> "About"],
        [href |-> <<>>, text |-> "pdf anchor"],
        [href |-> <<"view?file=PDFdoc">>, text |-> " "],
        [href |-> <<"view?file=PDFdoc">>, text |-> " "]>>,
      <<[href |-> <<"HTTP://example.org/A.PDF">>, text |-> " Judgment "]>> }

BodyChoices ==
    { <<>>,
      <<"No record found for this case.">>,
      <<"Petitioner A versus Respondent B", "Date of filing: 01-02-2024",
        "Order date 03/04/2024">>,
      <<"Please try again: invalid input, error">>,
      <<"Filed on 01-02-2024 at Delhi">> }

Strategies == {"table", "div", "json", "alt"}

\* no fault; one strategy raising; the two strategies whose exceptions reach
\* the loop of the pipeline; all four; or reading the page itself raising
FaultChoices ==
    {{}} \cup {{k} : k \in Strategies}
         \cup {{"table", "div"}, Strategies, {"page"}}

Features(d) ==
    Cardinality({k \in {"tables", "blocks", "scripts", "anchors", "body"} : d[k] # <<>>})

Docs ==
    { d \in [tables : TableChoices, blocks : BlockChoices, scripts : ScriptChoices,
             anchors : AnchorChoices, body : BodyChoices, faults : FaultChoices] :
        Features(d) <= MaxFeatures }

(***************************************************************************)
(* The state machine.  Each invocation of _parse_case_results runs on the  *)
(* one CourtScraper instance of app.py; the locals of the strategy call it *)
(* is in (its case_data) live in a frame of its own.                       *)
(***************************************************************************)
NumInv == 2

MaxRuns == 2

Invocations == 1..NumInv

VARIABLES
    soup,      \* soup[i]: the document invocation i parses
    pc,        \* pc[i]: where invocation i is
    pos,       \* pos[i]: how many entries of parsing_strategies the loop has taken
    frame,     \* frame[f]: the locals of the strategy call running in frame f
    ret,       \* ret[i]: <<>> or <<the value the strategy of invocation i returns>>
    calls,     \* calls[i]: the strategies invoked so far, in order
    results,   \* results[i]: what each finished call gave, <<>> for a raise
    outcome,   \* outcome[i]: <<>> or <<what _parse_case_results returned>>
    runs,      \* runs[i]: the number of the current call on soup[i]
    first,     \* first[i]: <<>> or <<the outcome of the first call on soup[i]>>
    req,       \* req[r]: <<>> or <<the JSON body of request r>>
    hpc,       \* hpc[r]: where the /api/search handler of request r is
    query_id,  \* query_id[r]: the id of the row request r inserted, 0 when none
    scraped,   \* scraped[r]: <<>> or <<what court_scraper.search_case returned>>
    response,  \* response[r]: <<>> or <<the HTTP response of request r>>
    queries,   \* the rows of table queries, the row with id n at position n
    case_rows, \* the rows of table case_data, in insertion order
    spc,       \* spc[i]: where the call i of CourtScraper.search_case is
    driver,    \* driver[i]: "none", "live" or "quit": the WebDriver of call i
    quits,     \* quits[i]: how often driver.quit() was called in call i
    captcha_value, \* captcha_value[i]: <<>> or <<the text read from the span>>
    typed,     \* typed[i]: <<>> or <<[selector, value] of the send_keys into the field>>
    clicked,   \* clicked[i]: the submit button was clicked
    parsed,    \* parsed[i]: _parse_case_results was called
    failed,    \* failed[i]: the step of call i that failed, "" when none did
    form_exit, \* form_exit[i]: "", "returned" or "raised": how _fill_form_and_search ended
    pending,   \* pending[i]: <<>> or <<the value search_case is about to return>>
    sresult    \* sresult[i]: <<>> or <<what search_case returned to its caller>>

parsevars == <<soup, pc, pos, frame, ret, calls, results, outcome, runs, first>>

appvars == <<req, hpc, query_id, scraped, response, queries, case_rows>>

searchvars ==
    <<spc, driver, quits, captcha_value, typed, clicked, parsed, failed, form_exit,
      pending, sresult>>

vars == <<parsevars, appvars, searchvars>>

\* Variant of FrameOf: the locals kept on the shared scraper instance.
SharedFrame(i) == 1

\* The frame of invocation i: every call builds its own locals.
FrameOf(i) == i

Frame(i) == frame[FrameOf(i)]

\* Variant of FreshCaseData: the record of the previous strategy call is
\* used again instead of a new one.
StaleCaseData(i) == frame[FrameOf(i)].case_data

\* lines 348-353, 431-436, 532-537: the strategy called by invocation i
\* starts from a record of its own, built from the defaults
FreshCaseData(i) == NewCaseData

Current(i) == parsing_strategies[pos[i]]

NoDoc ==
    [tables |-> <<>>, blocks |-> <<>>, scripts |-> <<>>, anchors |-> <<>>,
     body |-> <<>>, faults |-> {}]

InitFrames == [f \in Invocations |-> [case_data |-> NewCaseData]]

\* no request has reached the /api/search handler, both tables are empty
AppIdle ==
    /\ req = [r \in Invocations |-> <<>>]
    /\ hpc = [r \in Invocations |-> "idle"]
    /\ query_id = [r \in Invocations |-> 0]
    /\ scraped = [r \in Invocations |-> <<>>]
    /\ response = [r \in Invocations |-> <<>>]
    /\ queries = <<>>
    /\ case_rows = <<>>

\* no call of search_case has started
SearchIdle ==
    /\ spc = [i \in Invocations |-> "idle"]
    /\ driver = [i \in Invocations |-> "none"]
    /\ quits = [i \in Invocations |-> 0]
    /\ captcha_value = [i \in Invocations |-> <<>>]
    /\ typed = [i \in Invocations |-> <<>>]
    /\ clicked = [i \in Invocations |-> FALSE]
    /\ parsed = [i \in Invocations |-> FALSE]
    /\ failed = [i \in Invocations |-> ""]
    /\ form_exit = [i \in Invocations |-> ""]
    /\ pending = [i \in Invocations |-> <<>>]
    /\ sresult = [i \in Invocations |-> <<>>]

InitCommon ==
    /\ AppIdle
    /\ SearchIdle
    /\ pos = [i \in Invocations |-> 0]
    /\ frame = InitFrames
    /\ ret = [i \in Invocations |-> <<>>]
    /\ calls = [i \in Invocations |-> <<>>]
    /\ results = [i \in Invocations |-> <<>>]
    /\ outcome = [i \in Invocations |-> <<>>]
    /\ first = [i \in Invocations |-> <<>>]

\* One request at a time: invocation 1 parses any document of Docs.
Init ==
    /\ soup \in {[i \in Invocations |-> IF i = 1 THEN d ELSE NoDoc] : d \in Docs}
    /\ pc = [i \in Invocations |-> IF i = 1 THEN "start" ELSE "idle"]
    /\ runs = [i \in Invocations |-> IF i = 1 THEN 1 ELSE 0]
    /\ InitCommon

\* lines 311-316: page_source is read and parsed
Start(i) ==
    /\ pc[i] = "start"
    /\ IF "page" \in soup[i].faults
       THEN /\ outcome' = [outcome EXCEPT ![i] =
                              <<Failure("Failed to parse case results: " \o ExcText)>>]
            /\ pc' = [pc EXCEPT ![i] = "done"]
       ELSE /\ pc' = [pc EXCEPT ![i] = "loop"]
            /\ UNCHANGED outcome
    /\ UNCHANGED <<soup, pos, frame, ret, calls, results, runs, first>>
    /\ UNCHANGED <<appvars, searchvars>>

\* lines 326-328: the loop takes the next strategy and calls it; the callee
\* builds its case_data (the embedded-data strategy has none)
Call(i) ==
    /\ pc[i] = "loop"
    /\ pos[i] < Len(parsing_strategies)
    /\ pos' = [pos EXCEPT ![i] = pos[i] + 1]
    /\ calls' = [calls EXCEPT ![i] = Append(calls[i], parsing_strategies[pos[i] + 1])]
    /\ frame' = [frame EXCEPT ![FrameOf(i)].case_data =
                    IF parsing_strategies[pos[i] + 1] = "json"
                    THEN Frame(i).case_data ELSE FreshCaseData(i)]
    /\ ret' = [ret EXCEPT ![i] = <<>>]
    /\ pc' = [pc EXCEPT ![i] = "scan"]
    /\ UNCHANGED <<soup, results, outcome, runs, first>>
    /\ UNCHANGED <<appvars, searchvars>>

\* Variant of Raise: the exception of a strategy ends the loop.
RaiseAborts(i) ==
    /\ results' = [results EXCEPT ![i] = Append(results[i], <<>>)]
    /\ pc' = [pc EXCEPT ![i] = "done"]
    /\ UNCHANGED <<frame, ret>>

\* lines 332-334: the exception of a strategy is caught by the loop
Raise(i) ==
    /\ results' = [results EXCEPT ![i] = Append(results[i], <<>>)]
    /\ pc' = [pc EXCEPT ![i] = "loop"]
    /\ UNCHANGED <<frame, ret>>

Returning(i, value) ==
    /\ ret' = [ret EXCEPT ![i] = <<value>>]
    /\ pc' = [pc EXCEPT ![i] = "ret"]
    /\ UNCHANGED <<frame, results>>

Scanned(i, cd) ==
    /\ frame' = [frame EXCEPT ![FrameOf(i)].case_data = cd]
    /\ pc' = [pc EXCEPT ![i] = "links"]
    /\ UNCHANGED <<ret, results>>

\* Variant of TableRows: the rows are scanned without the test for tables.
TableRowsNoCheck(i) ==
    /\ pc[i] = "scan" /\ Current(i) = "table"
    /\ IF "table" \in soup[i].faults THEN Raise(i)
       ELSE Scanned(i, TableScan(soup[i], Frame(i).case_data))
    /\ UNCHANGED <<soup, pos, calls, outcome, runs, first>>
    /\ UNCHANGED <<appvars, searchvars>>

\* lines 355-412
TableRows(i) ==
    /\ pc[i] = "scan" /\ Current(i) = "table"
    /\ IF "table" \in soup[i].faults THEN Raise(i)
       ELSE IF soup[i].tables = <<>> THEN Returning(i, Failure("No tables found"))
       ELSE Scanned(i, TableScan(soup[i], Frame(i).case_data))
    /\ UNCHANGED <<soup, pos, calls, outcome, runs, first>>
    /\ UNCHANGED <<appvars, searchvars>>

\* lines 438-448
DivBlocks(i) ==
    /\ pc[i] = "scan" /\ Current(i) = "div"
    /\ IF "div" \in soup[i].faults THEN Raise(i)
       ELSE Scanned(i, DivScan(soup[i], Frame(i).case_data))
    /\ UNCHANGED <<soup, pos, calls, outcome, runs, first>>
    /\ UNCHANGED <<appvars, searchvars>>

\* lines 462-491: an exception is caught inside the strategy
JsonScripts(i) ==
    /\ pc[i] = "scan" /\ Current(i) = "json"
    /\ IF "json" \in soup[i].faults
       THEN Returning(i, Failure("No JSON data found"))
       ELSE Returning(i, JsonScan(soup[i]))
    /\ UNCHANGED <<soup, pos, calls, outcome, runs, first>>
    /\ UNCHANGED <<appvars, searchvars>>

\* lines 539-556, and 574-578 when an exception is raised
AltLines(i) ==
    /\ pc[i] = "scan" /\ Current(i) = "alt"
    /\ IF "alt" \in soup[i].faults
       THEN Returning(i, Failure("Alternative parsing failed: " \o ExcText))
       ELSE Scanned(i, AltScan(soup[i], Frame(i).case_data))
    /\ UNCHANGED <<soup, pos, calls, outcome, runs, first>>
    /\ UNCHANGED <<appvars, searchvars>>

Decide(name, cd) ==
    CASE name = "table" -> TableDecide(cd)
      [] name = "div" -> DivDecide(cd)
      [] name = "alt" -> AltDecide(cd)

\* lines 414-427, 450-460, 558-572: the links are attached to case_data and
\* the strategy decides what it returns
Links(i) ==
    /\ pc[i] = "links"
    /\ LET cd == AttachLinks(soup[i], Frame(i).case_data) IN
       /\ frame' = [frame EXCEPT ![FrameOf(i)].case_data = cd]
       /\ ret' = [ret EXCEPT ![i] = <<Decide(Current(i), cd)>>]
    /\ pc' = [pc EXCEPT ![i] = "ret"]
    /\ UNCHANGED <<soup, pos, calls, results, outcome, runs, first>>
    /\ UNCHANGED <<appvars, searchvars>>

\* lines 328-331: the strategy returned; a Success ends the pipeline
Return(i) ==
    /\ pc[i] = "ret"
    /\ results' = [results EXCEPT ![i] = Append(results[i], ret[i])]
    /\ IF ret[i][1].success
       THEN /\ outcome' = [outcome EXCEPT ![i] = ret[i]]
            /\ pc' = [pc EXCEPT ![i] = "done"]
       ELSE /\ pc' = [pc EXCEPT ![i] = "loop"]
            /\ UNCHANGED outcome
    /\ UNCHANGED <<soup, pos, frame, ret, calls, runs, first>>
    /\ UNCHANGED <<appvars, searchvars>>

\* lines 336-337: every strategy failed
Detect(i) ==
    /\ pc[i] = "loop"
    /\ pos[i] = Len(parsing_strategies)
    /\ outcome' = [outcome EXCEPT ![i] = <<CheckForErrors(soup[i])>>]
    /\ pc' = [pc EXCEPT ![i] = "done"]
    /\ UNCHANGED <<soup, pos, frame, ret, calls, results, runs, first>>
    /\ UNCHANGED <<appvars, searchvars>>

\* the caller runs the pipeline once more on the same, unchanged document
Again(i) ==
    /\ pc[i] = "done"
    /\ runs[i] < MaxRuns
    /\ runs' = [runs EXCEPT ![i] = runs[i] + 1]
    /\ first' = [first EXCEPT ![i] = IF first[i] = <<>> THEN outcome[i] ELSE first[i]]
    /\ outcome' = [outcome EXCEPT ![i] = <<>>]
    /\ calls' = [calls EXCEPT ![i] = <<>>]
    /\ results' = [results EXCEPT ![i] = <<>>]
    /\ pos' = [pos EXCEPT ![i] = 0]
    /\ pc' = [pc EXCEPT ![i] = "start"]
    /\ UNCHANGED <<soup, frame, ret>>
    /\ UNCHANGED <<appvars, searchvars>>

Next ==
    \E i \in Invocations :
        \/ Start(i)
        \/ Call(i)
        \/ TableRows(i)
        \/ DivBlocks(i)
        \/ JsonScripts(i)
        \/ AltLines(i)
        \/ Links(i)
        \/ Return(i)
        \/ Detect(i)
        \/ Again(i)

Spec == Init /\ [][Next]_vars

(***************************************************************************)
(* Concurrent requests: every invocation runs at once, each on a document  *)
(* of its own, all on the one CourtScraper instance (app.py line 19).      *)
(***************************************************************************)
ConcDocs ==
    { [NoDoc EXCEPT !.tables = << <<HeaderCells, <<"X/1/2024", "A vs B", "01-02-2024">> >> >>],
      [NoDoc EXCEPT !.blocks = <<[class |-> "detail", text |-> "Filed on 01-02-2024"]>>,
                    !.body = <<"Petitioner A versus Respondent B">>],
      [NoDoc EXCEPT !.tables = << << <<" Date of Next Hearing ", "05-03-2024">> >> >>,
                    !.anchors = <<[href |-> <<"/docs/order1.pdf">>, text |-> "Order"]>>],
      [NoDoc EXCEPT !.body = <<"No record found for this case.">>] }

ConcInit ==
    /\ soup \in [Invocations -> ConcDocs]
    /\ pc = [i \in Invocations |-> "start"]
    /\ runs = [i \in Invocations |-> 1]
    /\ InitCommon

ConcNext ==
    \E i \in Invocations :
        \/ Start(i)
        \/ Call(i)
        \/ TableRows(i)
        \/ DivBlocks(i)
        \/ JsonScripts(i)
        \/ AltLines(i)
        \/ Links(i)
        \/ Return(i)
        \/ Detect(i)

ConcSpec == ConcInit /\ [][ConcNext]_vars

(***************************************************************************)
(* The /api/search handler of app.py with the two tables of database.py.   *)
(* Every DatabaseManager method opens a connection, runs one statement and *)
(* commits, or raises what sqlite3 raised; the handler turns every         *)
(* exception into a 500 response.                                          *)
(***************************************************************************)
\* request.get_json(): <<>> when the body is not JSON, else the mapping sent
Payloads ==
    { <<>>,
      <<[case_type |-> "W.P.(C)", case_number |-> "11199", filing_year |-> "2025"]>>,
      <<[case_type |-> "W.P.(C)", case_number |-> "", filing_year |-> "2025"]>>,
      <<[case_type |-> "W.P.(C)", case_number |-> "11199"]>> }

required_fields == <<"case_type", "case_number", "filing_year">>

\* not data.get(field)
Missing(data, field) == field \notin DOMAIN data \/ data[field] = ""

\* a page whose embedded data gives the parties as a list of names
ListPartiesDoc ==
    [NoDoc EXCEPT !.scripts =
        << <<"var data = {\"case\":\"X/1/2024\",\"parties\":[\"A\",\"B\"]};">> >>]

\* what court_scraper.search_case can hand back: the outcome of the pipeline
\* on the result page, or a failure met before the page was parsed; text
\* tells whether parties and the dates of a record are all text
ScrapeChoices ==
    {[result |-> parse_case_results(d), text |-> TRUE] : d \in ConcDocs}
        \cup {[result |-> parse_case_results(ListPartiesDoc), text |-> FALSE],
              [result |-> Failure("Form submission failed: Submit button not found"),
               text |-> TRUE],
              [result |-> Failure("Search failed: " \o ExcText), text |-> TRUE]}

\* json.dumps of a list of links
RECURSIVE DumpLinksFrom(_, _)
DumpLinksFrom(links, n) ==
    IF n > Len(links) THEN ""
    ELSE (IF n > 1 THEN ", " ELSE "")
         \o "{\"url\": \"" \o links[n].url \o "\", \"text\": \"" \o links[n].text \o "\"}"
         \o DumpLinksFrom(links, n + 1)

json_dumps(links) == "[" \o DumpLinksFrom(links, 1) \o "]"

\* str() of a list of links
RECURSIVE ReprLinksFrom(_, _)
ReprLinksFrom(links, n) ==
    IF n > Len(links) THEN ""
    ELSE (IF n > 1 THEN ", " ELSE "")
         \o "{'url': '" \o links[n].url \o "', 'text': '" \o links[n].text \o "'}"
         \o ReprLinksFrom(links, n + 1)

\* str(result['data']) of a record whose fields are text
ReprCaseData(cd) ==
    "{'parties': '" \o cd.parties \o "', 'filing_date': '" \o cd.filing_date
        \o "', 'hearing_date': '" \o cd.hearing_date
        \o "', 'pdf_links': [" \o ReprLinksFrom(cd.pdf_links, 1) \o "]}"

\* lines 97-103: any exception ends the handler with a 500 response
Respond500(r) ==
    /\ response' = [response EXCEPT ![r] =
           <<[code |-> 500, success |-> FALSE, error |-> "Internal server error occurred"]>>]
    /\ hpc' = [hpc EXCEPT ![r] = "responded"]

\* lines 30-44: the body is read and validated
Validate(r) ==
    /\ hpc[r] = "idle"
    /\ \E body \in Payloads :
           /\ req' = [req EXCEPT ![r] = body]
           /\ IF body = <<>> THEN Respond500(r)
              ELSE IF \E n \in 1..Len(required_fields) : Missing(body[1], required_fields[n])
              THEN LET n == CHOOSE m \in 1..Len(required_fields) :
                                /\ Missing(body[1], required_fields[m])
                                /\ \A l \in 1..(m - 1) : ~Missing(body[1], required_fields[l])
                   IN  /\ response' = [response EXCEPT ![r] =
                              <<[code |-> 400, success |-> FALSE,
                                 error |-> "Missing required field: " \o required_fields[n]]>>]
                       /\ hpc' = [hpc EXCEPT ![r] = "responded"]
              ELSE /\ hpc' = [hpc EXCEPT ![r] = "store_query"]
                   /\ UNCHANGED response
    /\ UNCHANGED <<query_id, scraped, queries, case_rows>>
    /\ UNCHANGED <<parsevars, searchvars>>

\* lines 47-52 and database.py lines 74-98: the row is inserted with status
\* 'processing', or the insert raises
StoreQuery(r) ==
    /\ hpc[r] = "store_query"
    /\ \/ /\ queries' = Append(queries,
                            [case_type     |-> req[r][1].case_type,
                             case_number   |-> req[r][1].case_number,
                             filing_year   |-> req[r][1].filing_year,
                             status        |-> "processing",
                             error_message |-> <<>>])
          /\ query_id' = [query_id EXCEPT ![r] = Len(queries) + 1]
          /\ hpc' = [hpc EXCEPT ![r] = "search"]
          /\ UNCHANGED response
       \/ /\ Respond500(r)
          /\ UNCHANGED <<queries, query_id>>
    /\ UNCHANGED <<req, scraped, case_rows>>
    /\ UNCHANGED <<parsevars, searchvars>>

\* lines 58-63: the scraper is called and returns an outcome
Scrape(r) ==
    /\ hpc[r] = "search"
    /\ \E choice \in ScrapeChoices :
           /\ scraped' = [scraped EXCEPT ![r] = <<choice>>]
           /\ hpc' = [hpc EXCEPT ![r] = "result"]
           /\ UNCHANGED response
    /\ UNCHANGED <<req, query_id, queries, case_rows>>
    /\ UNCHANGED <<parsevars, searchvars>>

\* lines 65-74 and database.py lines 119-145: the record is inserted into
\* case_data; the insert raises when sqlite3 cannot bind a field or fails
StoreCaseData(r) ==
    /\ hpc[r] = "result"
    /\ scraped[r][1].result.success
    /\ LET cd == scraped[r][1].result.data IN
       \/ /\ scraped[r][1].text
          /\ case_rows' = Append(case_rows,
                              [query_id     |-> query_id[r],
                               parties      |-> cd.parties,
                               filing_date  |-> cd.filing_date,
                               hearing_date |-> cd.hearing_date,
                               pdf_links    |-> json_dumps(cd.pdf_links),
                               raw_response |-> ReprCaseData(cd)])
          /\ hpc' = [hpc EXCEPT ![r] = "stored"]
          /\ UNCHANGED response
       \/ /\ Respond500(r)
          /\ UNCHANGED case_rows
    /\ UNCHANGED <<req, query_id, scraped, queries>>
    /\ UNCHANGED <<parsevars, searchvars>>

\* database.py lines 100-117
update_query_status(id, status, error_message) ==
    [queries EXCEPT ![id].status = status, ![id].error_message = error_message]

\* lines 77-83: the row is marked 'completed' and the record sent back
Completed(r) ==
    /\ hpc[r] = "stored"
    /\ \/ /\ queries' = update_query_status(query_id[r], "completed", <<>>)
          /\ response' = [response EXCEPT ![r] =
                 <<[code |-> 200, success |-> TRUE,
                    data |-> scraped[r][1].result.data, query_id |-> query_id[r]]>>]
          /\ hpc' = [hpc EXCEPT ![r] = "responded"]
       \/ /\ Respond500(r)
          /\ UNCHANGED queries
    /\ UNCHANGED <<req, query_id, scraped, case_rows>>
    /\ UNCHANGED <<parsevars, searchvars>>

\* lines 84-95: the row is marked 'failed' with the reason
Failed(r) ==
    /\ hpc[r] = "result"
    /\ ~scraped[r][1].result.success
    /\ \/ /\ queries' = update_query_status(query_id[r], "failed",
                                            <<scraped[r][1].result.error>>)
          /\ response' = [response EXCEPT ![r] =
                 <<[code |-> 400, success |-> FALSE,
                    error |-> scraped[r][1].result.error]>>]
          /\ hpc' = [hpc EXCEPT ![r] = "responded"]
       \/ /\ Respond500(r)
          /\ UNCHANGED queries
    /\ UNCHANGED <<req, query_id, scraped, case_rows>>
    /\ UNCHANGED <<parsevars, searchvars>>

\* no pipeline runs outside a request
ParseIdle ==
    /\ soup = [i \in Invocations |-> NoDoc]
    /\ pc = [i \in Invocations |-> "idle"]
    /\ runs = [i \in Invocations |-> 0]

AppInit == ParseIdle /\ InitCommon

AppNext ==
    \E r \in Invocations :
        \/ Validate(r)
        \/ StoreQuery(r)
        \/ Scrape(r)
        \/ StoreCaseData(r)
        \/ Completed(r)
        \/ Failed(r)

AppSpec == AppInit /\ [][AppNext]_vars

(***************************************************************************)
(* CourtScraper.search_case with _fill_form_and_search and                 *)
(* _handle_captcha.  Every call into the browser either does its work or   *)
(* raises; a return inside the try blocks takes effect after the finally   *)
(* block.  driver.quit() of the Chrome driver does not raise: it swallows  *)
(* what the quit command raises and stops the driver service.              *)
(***************************************************************************)
\* what the form steps can raise: line 193, and the timeout of wait.until
FormErrors ==
    {"Case type 'W.P.(C)' not found in dropdown options", "Message: timeout"}

\* the span with id "captcha-code": <<>> when the page has none, else its text
SpanChoices ==
    {<<>>, <<"">>, <<"   ">>, <<" 4821 ">>, <<"0007">>, <<"48a1">>, <<"482">>, <<"48213">>}

\* lines 253-258
captcha_field_selectors ==
    <<"//input[@name='captcha']",
      "//input[contains(@placeholder, 'captcha')]",
      "//input[contains(@id, 'captcha')]",
      "//input[@type='text']">>

\* str.isdigit() of a text of ASCII characters
IsDigits(s) == Len(s) > 0 /\ \A n \in 1..Len(s) : CharAt(s, n) \in Digits

\* Variant of ValidCaptcha: the length of the value is not tested.
ValidCaptchaAnyLength(value) == value # "" /\ IsDigits(value)

\* line 246, negated
ValidCaptcha(value) == value # "" /\ Len(value) = 4 /\ IsDigits(value)

\* the pages the browser can show after the click
ResultPages == ConcDocs \cup {[NoDoc EXCEPT !.faults = {"page"}]}

\* a return statement inside the try blocks: the value is handed to the
\* caller once the finally block has run
ReturnLater(i, value) ==
    /\ pending' = [pending EXCEPT ![i] = <<value>>]
    /\ spc' = [spc EXCEPT ![i] = "finally"]

\* lines 144-149: the outer except clause of search_case
OuterExcept(i, step, message) ==
    /\ failed' = [failed EXCEPT ![i] = step]
    /\ ReturnLater(i, Failure("Search failed: " \o message))

\* Variant of FormExcept: what _fill_form_and_search raises is not caught.
FormExceptUncaught(i, step, message) ==
    /\ failed' = [failed EXCEPT ![i] = step]
    /\ form_exit' = [form_exit EXCEPT ![i] = "raised"]
    /\ spc' = [spc EXCEPT ![i] = "raised"]
    /\ UNCHANGED pending

\* lines 228-230 and 137-142: _fill_form_and_search raises again what it
\* caught, the inner except clause of search_case makes a Failure of it
FormExcept(i, step, message) ==
    /\ failed' = [failed EXCEPT ![i] = step]
    /\ form_exit' = [form_exit EXCEPT ![i] = "raised"]
    /\ ReturnLater(i, Failure("Form submission failed: " \o message))

\* lines 213-214: _fill_form_and_search returns the Failure of
\* _handle_captcha, and search_case returns it
CaptchaFails(i, message) ==
    /\ failed' = [failed EXCEPT ![i] = "captcha"]
    /\ form_exit' = [form_exit EXCEPT ![i] = "returned"]
    /\ ReturnLater(i, Failure(message))

\* lines 96-98 and 30-53
GetDriver(i) ==
    /\ spc[i] = "idle"
    /\ \/ /\ driver' = [driver EXCEPT ![i] = "live"]
          /\ spc' = [spc EXCEPT ![i] = "navigate"]
          /\ UNCHANGED <<failed, pending>>
       \/ /\ OuterExcept(i, "driver", "Chrome WebDriver initialization failed")
          /\ UNCHANGED driver
    /\ UNCHANGED <<quits, captcha_value, typed, clicked, parsed, form_exit, sresult>>
    /\ UNCHANGED <<parsevars, appvars>>

\* lines 100-132: the search page is loaded
Navigate(i) ==
    /\ spc[i] = "navigate"
    /\ \/ /\ spc' = [spc EXCEPT ![i] = "form"]
          /\ UNCHANGED <<failed, pending>>
       \/ OuterExcept(i, "navigation", ExcText)
    /\ UNCHANGED <<driver, quits, captcha_value, typed, clicked, parsed, form_exit, sresult>>
    /\ UNCHANGED <<parsevars, appvars>>

\* lines 159-209: case type, case number and year are filled in
FillForm(i) ==
    /\ spc[i] = "form"
    /\ \/ /\ spc' = [spc EXCEPT ![i] = "captcha"]
          /\ UNCHANGED <<failed, form_exit, pending>>
       \/ \E message \in FormErrors : FormExcept(i, "form", message)
    /\ UNCHANGED <<driver, quits, captcha_value, typed, clicked, parsed, sresult>>
    /\ UNCHANGED <<parsevars, appvars>>

\* lines 234-250, and 280-285 when find_element raises something else than
\* NoSuchElementException
ReadCaptcha(i) ==
    /\ spc[i] = "captcha"
    /\ \/ \E span \in SpanChoices :
              IF span = <<>>
              THEN /\ CaptchaFails(i, "CAPTCHA span element not found")
                   /\ UNCHANGED captcha_value
              ELSE /\ captcha_value' = [captcha_value EXCEPT ![i] = <<Strip(span[1])>>]
                   /\ IF ValidCaptcha(Strip(span[1]))
                      THEN /\ spc' = [spc EXCEPT ![i] = "captcha_field"]
                           /\ UNCHANGED <<failed, form_exit, pending>>
                      ELSE CaptchaFails(i, "Invalid CAPTCHA format: " \o Strip(span[1]))
       \/ /\ CaptchaFails(i, "CAPTCHA handling failed: " \o ExcText)
          /\ UNCHANGED captcha_value
    /\ UNCHANGED <<driver, quits, typed, clicked, parsed, sresult>>
    /\ UNCHANGED <<parsevars, appvars>>

\* lines 252-278: found is the position of the first selector that finds an
\* input, 0 when none does; and lines 280-285 when clear or send_keys raises
TypeCaptcha(i) ==
    /\ spc[i] = "captcha_field"
    /\ \E found \in 0..Len(captcha_field_selectors) :
           IF found = 0
           THEN /\ CaptchaFails(i, "CAPTCHA input field not found")
                /\ UNCHANGED typed
           ELSE \/ /\ typed' = [typed EXCEPT ![i] =
                          <<[selector |-> captcha_field_selectors[found],
                             value |-> captcha_value[i][1]]>>]
                   /\ spc' = [spc EXCEPT ![i] = "submit"]
                   /\ UNCHANGED <<failed, form_exit, pending>>
                \/ /\ CaptchaFails(i, "CAPTCHA handling failed: " \o ExcText)
                   /\ UNCHANGED typed
    /\ UNCHANGED <<driver, quits, captcha_value, clicked, parsed, sresult>>
    /\ UNCHANGED <<parsevars, appvars>>

\* lines 216-226 and 287-307
Submit(i) ==
    /\ spc[i] = "submit"
    /\ \E button \in BOOLEAN :
           IF button
           THEN \/ /\ clicked' = [clicked EXCEPT ![i] = TRUE]
                   /\ spc' = [spc EXCEPT ![i] = "parse"]
                   /\ UNCHANGED <<failed, form_exit, pending>>
                \/ /\ FormExcept(i, "submit", ExcText)
                   /\ UNCHANGED clicked
           ELSE /\ FormExcept(i, "submit", "Submit button not found")
                /\ UNCHANGED clicked
    /\ UNCHANGED <<driver, quits, captcha_value, typed, parsed, sresult>>
    /\ UNCHANGED <<parsevars, appvars>>

\* lines 222-224: _parse_case_results on the page the browser shows
Parse(i) ==
    /\ spc[i] = "parse"
    /\ \E page \in ResultPages :
           /\ failed' = [failed EXCEPT ![i] =
                  IF parse_case_results(page).success THEN "" ELSE "parsing"]
           /\ ReturnLater(i, parse_case_results(page))
    /\ parsed' = [parsed EXCEPT ![i] = TRUE]
    /\ form_exit' = [form_exit EXCEPT ![i] = "returned"]
    /\ UNCHANGED <<driver, quits, captcha_value, typed, clicked, sresult>>
    /\ UNCHANGED <<parsevars, appvars>>

\* Variant of Finally: the driver is quit only when a Success is returned.
FinallyOnSuccess(i) ==
    /\ spc[i] = "finally"
    /\ IF driver[i] = "live" /\ pending[i][1].success
       THEN /\ driver' = [driver EXCEPT ![i] = "quit"]
            /\ quits' = [quits EXCEPT ![i] = quits[i] + 1]
       ELSE UNCHANGED <<driver, quits>>
    /\ sresult' = [sresult EXCEPT ![i] = pending[i]]
    /\ spc' = [spc EXCEPT ![i] = "returned"]
    /\ UNCHANGED <<captcha_value, typed, clicked, parsed, failed, form_exit, pending>>
    /\ UNCHANGED <<parsevars, appvars>>

\* lines 150-153: the finally block, then the pending return
Finally(i) ==
    /\ spc[i] = "finally"
    /\ IF driver[i] # "none"
       THEN /\ driver' = [driver EXCEPT ![i] = "quit"]
            /\ quits' = [quits EXCEPT ![i] = quits[i] + 1]
       ELSE UNCHANGED <<driver, quits>>
    /\ sresult' = [sresult EXCEPT ![i] = pending[i]]
    /\ spc' = [spc EXCEPT ![i] = "returned"]
    /\ UNCHANGED <<captcha_value, typed, clicked, parsed, failed, form_exit, pending>>
    /\ UNCHANGED <<parsevars, appvars>>

SearchInit == ParseIdle /\ InitCommon

\* search_case keeps all it uses in locals, so its calls share no state:
\* one call is followed
Searches == {1}

SearchNext ==
    \E i \in Searches :
        \/ GetDriver(i)
        \/ Navigate(i)
        \/ FillForm(i)
        \/ ReadCaptcha(i)
        \/ TypeCaptcha(i)
        \/ Submit(i)
        \/ Parse(i)
        \/ Finally(i)

SearchSpec == SearchInit /\ [][SearchNext]_vars

(***************************************************************************)
(* Properties.                                                             *)
(***************************************************************************)
Running(i) == pc[i] # "idle"

Done(i) == pc[i] = "done"

\* position of the first Success among the finished calls, 0 when none
FirstSuccess(rs) ==
    IF \E n \in 1..Len(rs) : Succeeded(rs[n])
    THEN CHOOSE n \in 1..Len(rs) :
             Succeeded(rs[n]) /\ \A m \in 1..(n - 1) : ~Succeeded(rs[m])
    ELSE 0

\* every outcome a strategy, the detector or the pipeline has handed back
\* in the current state
Returned(i) ==
    {results[i][n][1] : n \in {m \in 1..Len(results[i]) : results[i][m] # <<>>}}
        \cup (IF pc[i] = "ret" THEN {ret[i][1]} ELSE {})
        \cup (IF outcome[i] # <<>> THEN {outcome[i][1]} ELSE {})

\* C1: the strategies are invoked in the order Structured-Table,
\* Labeled-Block, Embedded-Data, Free-Text Fallback; a strategy is invoked
\* only after every strategy before it finished without Success; the
\* pipeline returns the outcome of the first strategy that returned Success,
\* so a document on which both the Structured-Table and the Labeled-Block
\* strategy succeed yields the Structured-Table outcome.
C1_FixedOrderFirstSuccess ==
    \A i \in Invocations :
        /\ \A n \in 1..Len(calls[i]) :
               /\ calls[i][n] = <<"table", "div", "json", "alt">>[n]
               /\ \A m \in 1..(n - 1) :
                      m <= Len(results[i]) /\ ~Succeeded(results[i][m])
        /\ (Done(i) /\ FirstSuccess(results[i]) > 0) =>
               outcome[i] = results[i][FirstSuccess(results[i])]
        /\ (Done(i) /\ outcome[i][1].success) =>
               /\ FirstSuccess(results[i]) = Len(results[i])
               /\ Len(results[i]) = Len(calls[i])
        /\ ( /\ Done(i)
             /\ soup[i].faults = {}
             /\ Succeeded(StrategyResult("table", soup[i]))
             /\ Succeeded(StrategyResult("div", soup[i])) ) =>
               outcome[i] = <<parse_table_structure(soup[i])>>

\* a finished run on a document on which both strategies succeed, with
\* different outcomes, and only the Structured-Table strategy was invoked
C1_Witness ==
    \E i \in Invocations :
        /\ Done(i)
        /\ soup[i].faults = {}
        /\ Succeeded(StrategyResult("table", soup[i]))
        /\ Succeeded(StrategyResult("div", soup[i]))
        /\ parse_table_structure(soup[i]) # parse_div_structure(soup[i])
        /\ calls[i] = <<"table">>

AllDefault(cd) ==
    /\ cd.parties = NotAvailable
    /\ cd.filing_date = NotAvailable
    /\ cd.hearing_date = NotAvailable
    /\ cd.pdf_links = <<>>

\* C2: every Success outcome returned by a strategy or by the pipeline has a
\* parties, filing date or hearing date other than "Not available", or a
\* non-empty list of document links.
C2_SuccessHasData ==
    \A i \in Invocations :
        \A o \in Returned(i) : o.success => ~AllDefault(o.data)

\* C3: a strategy that raises counts as failed and the pipeline goes on with
\* the next strategy: the run ends with the first Success of the strategies
\* that returned, or with the detector's result when there is none.
C3_RaiseContinues ==
    \A i \in Invocations :
        \A n \in 1..Len(results[i]) :
            calls[i][n] \in soup[i].faults =>
                /\ ~Succeeded(results[i][n])
                /\ Done(i) =>
                       /\ outcome[i] # <<>>
                       /\ n < Len(parsing_strategies) => Len(calls[i]) > n
                       /\ outcome[i] =
                              IF FirstSuccess(results[i]) > 0
                              THEN results[i][FirstSuccess(results[i])]
                              ELSE <<CheckForErrors(soup[i])>>

\* a finished run whose first strategy raised and whose outcome is the
\* Success of a later strategy
C3_Witness ==
    \E i \in Invocations :
        /\ Done(i)
        /\ Len(results[i]) >= 2
        /\ results[i][1] = <<>>
        /\ outcome[i][1].success

DetectorReasons ==
    {"Court website returned: " \o error_messages[n] : n \in 1..Len(error_messages)}
        \cup {"No case information found on the page"}

\* C4: when all four strategies failed or raised, the pipeline returns the
\* detector's result, which is a Failure with a reason and never a Success.
C4_AllFailDetector ==
    \A i \in Invocations :
        ( /\ Done(i)
          /\ Len(results[i]) = Len(parsing_strategies)
          /\ FirstSuccess(results[i]) = 0 ) =>
            /\ outcome[i] # <<>>
            /\ ~outcome[i][1].success
            /\ outcome[i][1].error \in DetectorReasons
            /\ outcome[i] = <<CheckForErrors(soup[i])>>

\* a finished run in which the first two strategies raised, the other two
\* failed and the detector found a phrase of its list
C4_Witness ==
    \E i \in Invocations :
        /\ Done(i)
        /\ Len(results[i]) = 4
        /\ results[i][1] = <<>>
        /\ results[i][2] = <<>>
        /\ outcome[i][1].error = "Court website returned: no record"

\* C5: every document link of a Success outcome has an absolute url.
C5_LinksAbsolute ==
    \A i \in Invocations :
        \A o \in Returned(i) :
            o.success =>
                \A n \in 1..Len(o.data.pdf_links) : IsAbsolute(o.data.pdf_links[n].url)

\* an outcome is one variant: Success with a record and no reason, or
\* Failure with a reason and no record
OneVariant(o) ==
    \/ o.success /\ DOMAIN o = {"success", "data"}
    \/ ~o.success /\ DOMAIN o = {"success", "error"}

\* C6: every outcome returned by a strategy, by the detector or by the
\* pipeline is exactly one variant.
C6_OneVariant ==
    \A i \in Invocations : \A o \in Returned(i) : OneVariant(o)

\* a finished run that saw a Failure of a strategy and ended in a Success
C6_Witness ==
    \E i \in Invocations :
        /\ Done(i)
        /\ outcome[i][1].success
        /\ \E o \in Returned(i) : ~o.success

\* C7: a second run of the pipeline on the same unchanged document returns
\* the outcome of the first run.
C7_Idempotent ==
    \A i \in Invocations :
        (Done(i) /\ first[i] # <<>>) => outcome[i] = first[i]

\* a second run that finished with a Success reached through two failed
\* strategies
C7_Witness ==
    \E i \in Invocations :
        /\ Done(i)
        /\ runs[i] = 2
        /\ first[i] # <<>>
        /\ outcome[i][1].success
        /\ Len(results[i]) >= 3

\* C8: under every interleaving of concurrent invocations on documents of
\* their own, each invocation returns what the pipeline returns on its
\* document when it runs alone.
C8_NoInterference ==
    \A i \in Invocations :
        Done(i) => outcome[i] = <<parse_case_results(soup[i])>>

\* one invocation finished with a Success while another, on a different
\* document, is in the middle of a strategy
C8_Witness ==
    \E i, j \in Invocations :
        /\ i # j
        /\ soup[i] # soup[j]
        /\ Done(i)
        /\ outcome[i][1].success
        /\ pc[j] = "links"

\* the return of the Structured-Table strategy is in frame i
TableReturns(i) == pc[i] = "ret" /\ Current(i) = "table"

\* C9: on a document with a table the Structured-Table strategy returns
\* Success exactly when parties, filing date or hearing date left its
\* default or the link list is non-empty, and Failure("No data found in
\* table structure") otherwise.
C9_TableSuccessIff ==
    \A i \in Invocations :
        (TableReturns(i) /\ soup[i].tables # <<>>) =>
            IF ~AllDefault(Frame(i).case_data)
            THEN ret[i] = <<Success(Frame(i).case_data)>>
            ELSE ret[i] = <<Failure("No data found in table structure")>>

\* C10: on a document without a table the Structured-Table strategy returns
\* Failure("No tables found") at once, whatever else the document holds: no
\* row was scanned and no link attached to its record.
C10_NoTables ==
    \A i \in Invocations :
        /\ (TableReturns(i) /\ soup[i].tables = <<>>) =>
               /\ ret[i] = <<Failure("No tables found")>>
               /\ Frame(i).case_data = NewCaseData
        /\ ( /\ Len(results[i]) >= 1
             /\ soup[i].tables = <<>>
             /\ "table" \notin soup[i].faults ) =>
               results[i][1] = <<Failure("No tables found")>>

\* the strategy returns on a document without a table that has a PDF anchor
C10_Witness ==
    \E i \in Invocations :
        /\ TableReturns(i)
        /\ soup[i].tables = <<>>
        /\ extract_pdf_links(soup[i]) # <<>>

\* the only recoverable data of doc is anchors whose reference ends in ".pdf"
OnlyPdfAnchor(doc) ==
    /\ Rows(doc) = <<>>
    /\ doc.blocks = <<>>
    /\ doc.scripts = <<>>
    /\ doc.body = <<>>
    /\ doc.anchors # <<>>
    /\ \A n \in 1..Len(doc.anchors) :
           /\ doc.anchors[n].href # <<>>
           /\ EndsWith(Lower(doc.anchors[n].href[1]), ".pdf")

\* the visible label of an anchor
LabelOf(anchor) ==
    IF Strip(anchor.text) = "" THEN "Download PDF" ELSE Strip(anchor.text)

\* links holds an entry for anchor, with an absolute url and its label
HasLinkOf(links, anchor) ==
    \E k \in 1..Len(links) :
        IsAbsolute(links[k].url) /\ links[k].text = LabelOf(anchor)

\* a strategy that attaches the links returns in frame i, no exception
\* having been raised inside it
LinkStrategyReturns(i) ==
    /\ pc[i] = "ret"
    /\ Current(i) \in {"table", "div", "alt"}
    /\ Current(i) \notin soup[i].faults

SuccessWithLinks(i) ==
    /\ ret[i][1].success
    /\ \A n \in 1..Len(soup[i].anchors) :
           HasLinkOf(ret[i][1].data.pdf_links, soup[i].anchors[n])

\* C11 as stated: on a document whose only recoverable data is an anchor
\* with a reference ending in ".pdf", the Structured-Table, Labeled-Block
\* and Free-Text Fallback strategies each return Success with that link,
\* absolute and labelled.
C11_Original ==
    \A i \in Invocations :
        (LinkStrategyReturns(i) /\ OnlyPdfAnchor(soup[i])) => SuccessWithLinks(i)

\* C11: on a document whose only recoverable data is an anchor with a
\* reference ending in ".pdf", the Labeled-Block and Free-Text Fallback
\* strategies return Success with that link, absolute and labelled; the
\* Structured-Table strategy does so when the document has a table element
\* and returns Failure("No tables found") when it has none.
C11_PdfAnchorSuccess ==
    \A i \in Invocations :
        (LinkStrategyReturns(i) /\ OnlyPdfAnchor(soup[i])) =>
            IF Current(i) = "table" /\ soup[i].tables = <<>>
            THEN ret[i] = <<Failure("No tables found")>>
            ELSE SuccessWithLinks(i)

\* the Free-Text Fallback strategy returns a Success on a document that
\* holds nothing but a PDF anchor with a relative reference
C11_Witness ==
    \E i \in Invocations :
        /\ pc[i] = "ret" /\ Current(i) = "alt"
        /\ OnlyPdfAnchor(soup[i])
        /\ ~IsAbsolute(soup[i].anchors[1].href[1])
        /\ ret[i][1].success

\* doc with one table holding the flattened rows from the header row on
FromHeaderRow(doc) ==
    [doc EXCEPT !.tables =
        <<SubSeq(Rows(doc), HeaderRow(Rows(doc)), Len(Rows(doc)))>>]

\* C12: when the Structured-Table strategy finds a header row, the rows
\* before it in the flattened row list are not data rows: parties and filing
\* date are what the rows from the header row on give by themselves.
C12_RowsBeforeHeaderIgnored ==
    \A i \in Invocations :
        ( /\ TableReturns(i)
          /\ "table" \notin soup[i].faults
          /\ HeaderRow(Rows(soup[i])) > 0 ) =>
            LET after == TableScan(FromHeaderRow(soup[i]), NewCaseData) IN
            /\ Frame(i).case_data.parties = after.parties
            /\ Frame(i).case_data.filing_date = after.filing_date

\* the cells of row whose trimmed, lower-cased text contains word
CellsWith(row, word) ==
    {c \in 1..Len(row) : Contains(Lower(Strip(row[c])), word)}

\* the cells of row that name a date of judgment or order
DateCells(row) ==
    CellsWith(row, "date") \cap (CellsWith(row, "judgment") \cup CellsWith(row, "order"))

\* doc has a header row with one "case no" cell, one party cell and one date
\* cell, followed by one data row with a cell for each column
HeaderAndOneRow(doc) ==
    /\ Len(Rows(doc)) = 2
    /\ Len(Rows(doc)[2]) = Len(Rows(doc)[1])
    /\ Cardinality(CellsWith(Rows(doc)[1], "case no")) = 1
    /\ Cardinality(CellsWith(Rows(doc)[1], "party")) = 1
    /\ Cardinality(DateCells(Rows(doc)[1])) = 1
    /\ Cardinality(CellsWith(Rows(doc)[1], "case no") \cup CellsWith(Rows(doc)[1], "party")
                       \cup DateCells(Rows(doc)[1])) = 3
    /\ CellsWith(Rows(doc)[2], "case no") = {}

DateLine(line) ==
    /\ Len(Strip(line)) > 10
    /\ \E w \in {"filed", "filing", "date"} : Contains(Lower(line), w)
    /\ FirstDate(Strip(line)) # <<>>

\* the first date of the first date line of lines, "Not available" if none
FirstLineDate(lines) ==
    IF \E n \in 1..Len(lines) : DateLine(lines[n])
    THEN LET n == CHOOSE m \in 1..Len(lines) :
                      DateLine(lines[m]) /\ \A l \in 1..(m - 1) : ~DateLine(lines[l])
         IN  FirstDate(Strip(lines[n]))[1]
    ELSE "Not available"

\* C14: the Free-Text Fallback strategy sets the filing date from the first
\* line, in document order, that contains "filed", "filing" or "date" and a
\* date; no later line overwrites it.  Documents with a date line that also
\* holds "vs" are left aside.
C14_FirstDateLineWins ==
    \A i \in Invocations :
        ( /\ pc[i] = "ret" /\ Current(i) = "alt"
          /\ "alt" \notin soup[i].faults
          /\ \A n \in 1..Len(SplitLines(get_text(soup[i]))) :
                 DateLine(SplitLines(get_text(soup[i]))[n]) =>
                     ~Contains(Lower(SplitLines(get_text(soup[i]))[n]), "vs") ) =>
            Frame(i).case_data.filing_date = FirstLineDate(SplitLines(get_text(soup[i])))

\* block is a candidate block whose text holds a "vs" marker
VsBlock(block) ==
    /\ \E w \in {"case", "info", "detail", "party"} : Contains(Lower(block.class), w)
    /\ Contains(Lower(Strip(block.text)), "vs") \/ Contains(Lower(Strip(block.text)), "versus")

\* block is a candidate block whose text holds a filing marker and a date
FilingBlock(block) ==
    /\ \E w \in {"case", "info", "detail", "party"} : Contains(Lower(block.class), w)
    /\ Contains(Lower(Strip(block.text)), "filed") \/ Contains(Lower(Strip(block.text)), "filing")
    /\ FirstDate(Strip(block.text)) # <<>>

\* C15: in the Labeled-Block strategy every candidate block with "vs" or
\* "versus" sets parties to its text, and every candidate block with "filed"
\* or "filing" and a date sets the filing date to its first date, a block
\* with both markers included: after the scan each field holds the value of
\* the last block that sets it.
C15_BlockSetsBoth ==
    \A i \in Invocations :
        (pc[i] = "ret" /\ Current(i) = "div" /\ "div" \notin soup[i].faults) =>
            LET blocks == soup[i].blocks
                cd == Frame(i).case_data
            IN  \A n \in 1..Len(blocks) :
                    /\ ( /\ VsBlock(blocks[n])
                         /\ \A m \in (n + 1)..Len(blocks) : ~VsBlock(blocks[m]) ) =>
                           cd.parties = Strip(blocks[n].text)
                    /\ ( /\ FilingBlock(blocks[n])
                         /\ \A m \in (n + 1)..Len(blocks) : ~FilingBlock(blocks[m]) ) =>
                           cd.filing_date = FirstDate(Strip(blocks[n].text))[1]

\* what the brace-delimited text of a matching script element decodes to:
\* <<mapping>>, or <<>> when the element has no text, does not match, has no
\* braces or does not decode
DecodedMapping(script) ==
    IF script = <<>> THEN <<>>
    ELSE IF ~(Contains(Lower(script[1]), "case") \/ Contains(Lower(script[1]), "data"))
    THEN <<>>
    ELSE IF BraceMatch(script[1]) = <<>> THEN <<>>
    ELSE json_loads(BraceMatch(script[1])[1])

HasCaseKey(decoded) ==
    decoded # <<>> /\ DOMAIN decoded[1] \cap {"case", "parties", "filing"} # {}

Lookup(mapping, key) ==
    IF key \in DOMAIN mapping THEN mapping[key] ELSE "Not available"

\* the Embedded-Data strategy returns in frame i, no exception having been
\* raised inside it
JsonReturns(i) ==
    pc[i] = "ret" /\ Current(i) = "json" /\ "json" \notin soup[i].faults

\* C16: when the text of a matching script decodes to a mapping with one of
\* the keys case, parties, filing, the Embedded-Data strategy returns Success
\* with parties, filing date and hearing date looked up by key and "Not
\* available" for each absent key; a mapping with none of the keys gives no
\* Success.
C16_JsonKeyLookup ==
    \A i \in Invocations :
        JsonReturns(i) =>
            LET scripts == soup[i].scripts IN
            /\ \A n \in 1..Len(scripts) :
                   ( /\ HasCaseKey(DecodedMapping(scripts[n]))
                     /\ \A m \in 1..(n - 1) : ~HasCaseKey(DecodedMapping(scripts[m])) ) =>
                       LET mapping == DecodedMapping(scripts[n])[1] IN
                       /\ ret[i][1].success
                       /\ ret[i][1].data.parties = Lookup(mapping, "parties")
                       /\ ret[i][1].data.filing_date = Lookup(mapping, "filing_date")
                       /\ ret[i][1].data.hearing_date = Lookup(mapping, "hearing_date")
            /\ (\A n \in 1..Len(scripts) : ~HasCaseKey(DecodedMapping(scripts[n]))) =>
                   ~ret[i][1].success

\* the strategy returns a Success whose filing date was found under its key
\* and whose hearing date was absent
C16_Witness ==
    \E i \in Invocations :
        /\ JsonReturns(i)
        /\ ret[i][1].success
        /\ ret[i][1].data.filing_date # "Not available"
        /\ ret[i][1].data.hearing_date = "Not available"

\* the brace-delimited text of a matching script element does not decode
DecodeFails(script) ==
    /\ script # <<>>
    /\ Contains(Lower(script[1]), "case") \/ Contains(Lower(script[1]), "data")
    /\ BraceMatch(script[1]) # <<>>
    /\ json_loads(BraceMatch(script[1])[1]) = <<>>

\* C17: a script element that fails to decode does not end the Embedded-Data
\* strategy and raises nothing to the pipeline: the scan goes on with the
\* next elements, a later element that decodes to a record gives Success, and
\* without any such element the strategy returns Failure("No JSON data
\* found").
C17_DecodeFailureContinues ==
    \A i \in Invocations :
        LET scripts == soup[i].scripts IN
        /\ \A n \in 1..Len(results[i]) :
               (calls[i][n] = "json" /\ \E k \in 1..Len(scripts) : DecodeFails(scripts[k])) =>
                   results[i][n] # <<>>
        /\ JsonReturns(i) =>
               /\ \A k \in 1..Len(scripts) :
                      ( /\ DecodeFails(scripts[k])
                        /\ \E m \in (k + 1)..Len(scripts) : HasCaseKey(DecodedMapping(scripts[m])) ) =>
                          ret[i][1].success
               /\ (\A k \in 1..Len(scripts) : ~HasCaseKey(DecodedMapping(scripts[k]))) =>
                      ret[i] = <<[success |-> FALSE, error |-> "No JSON data found"]>>

\* the strategy returns a Success found after an element that did not decode
C17_Witness ==
    \E i \in Invocations :
        /\ JsonReturns(i)
        /\ \E k \in 1..Len(soup[i].scripts) : DecodeFails(soup[i].scripts[k])
        /\ ret[i][1].success

\* the positions of the anchors of doc that have a reference whose
\* lower-cased value ends with ".pdf" or contains "pdf"
PdfAnchors(doc) ==
    {n \in 1..Len(doc.anchors) :
        /\ doc.anchors[n].href # <<>>
        /\ \/ EndsWith(Lower(doc.anchors[n].href[1]), ".pdf")
           \/ Contains(Lower(doc.anchors[n].href[1]), "pdf")}

\* the k-th position of positions, in increasing order
Kth(positions, k) ==
    CHOOSE n \in positions : Cardinality({m \in positions : m <= n}) = k

\* a strategy has attached the Link Extractor's output to its record
LinksAttached(i) ==
    /\ LinkStrategyReturns(i)
    /\ Current(i) = "table" => soup[i].tables # <<>>

Phrases ==
    <<"not found", "no record", "invalid", "error", "not available",
      "no case found", "no data", "please try again">>

\* the phrase p occurs in s at position a
OccursAt(s, p, a) ==
    a + Len(p) - 1 <= Len(s) /\ SubSeq(s, a, a + Len(p) - 1) = p

\* the run of invocation i ended with the result of the detector
DetectorRan(i) ==
    /\ Done(i)
    /\ "page" \notin soup[i].faults
    /\ Len(results[i]) = 4
    /\ \A n \in 1..4 : ~Succeeded(results[i][n])

\* C19: the Error-Signal Detector returns Failure("Court website returned: "
\* + p) for the phrase p that comes first in its fixed list among those
\* occurring in the lower-cased page text, whatever their positions in the
\* text, and Failure("No case information found on the page") when no phrase
\* occurs.
C19_DetectorListOrder ==
    \A i \in Invocations :
        DetectorRan(i) =>
            LET page == Lower(get_text(soup[i])) IN
            /\ \A n \in 1..Len(Phrases) :
                   ( /\ Contains(page, Phrases[n])
                     /\ \A m \in 1..(n - 1) : ~Contains(page, Phrases[m]) ) =>
                       outcome[i] =
                           <<[success |-> FALSE,
                              error |-> "Court website returned: " \o Phrases[n]]>>
            /\ (\A n \in 1..Len(Phrases) : ~Contains(page, Phrases[n])) =>
                   outcome[i] =
                       <<[success |-> FALSE,
                          error |-> "No case information found on the page"]>>

\* the detector answered "invalid" on a page whose text has "please try
\* again" before "invalid" and "error" after it
C19_Witness ==
    \E i \in Invocations :
        /\ DetectorRan(i)
        /\ outcome[i][1].error = "Court website returned: invalid"
        /\ \E a, b, c \in 1..Len(get_text(soup[i])) :
               /\ a < b /\ b < c
               /\ OccursAt(Lower(get_text(soup[i])), "please try again", a)
               /\ OccursAt(Lower(get_text(soup[i])), "invalid", b)
               /\ OccursAt(Lower(get_text(soup[i])), "error", c)

\* the handler of request r has returned and had inserted a row
ReturnedWithRow(r) == hpc[r] = "responded" /\ query_id[r] > 0

\* the rows of case_data that belong to query id
RowsOf(id) == {n \in 1..Len(case_rows) : case_rows[n].query_id = id}

\* C20: when the handler of a /api/search request returns, the row it
\* inserted with status 'processing' has left that status: it is 'completed'
\* with one case_data row holding the record when the search succeeded,
\* 'failed' with the failure reason as error_message when it did not; this
\* holds on every path of the handler, the 500 response included.
C20_RowLeavesProcessing ==
    \A r \in Invocations :
        ReturnedWithRow(r) =>
            LET row == queries[query_id[r]] IN
            /\ row.status # "processing"
            /\ scraped[r] # <<>>
            /\ IF scraped[r][1].result.success
               THEN /\ row.status = "completed"
                    /\ Cardinality(RowsOf(query_id[r])) = 1
                    /\ \A n \in RowsOf(query_id[r]) :
                           /\ case_rows[n].parties = scraped[r][1].result.data.parties
                           /\ case_rows[n].filing_date = scraped[r][1].result.data.filing_date
                           /\ case_rows[n].hearing_date = scraped[r][1].result.data.hearing_date
               ELSE /\ row.status = "failed"
                    /\ row.error_message = <<scraped[r][1].result.error>>

\* C21: search_case never raises to its caller: whatever fails, creating
\* the driver, loading the page, filling the form, handling the CAPTCHA,
\* submitting or parsing, it returns an outcome, a Failure with an error
\* text or a Success with a record.
C21_SearchAlwaysReturns ==
    \A i \in Searches :
        /\ spc[i] # "raised"
        /\ failed[i] # "" => spc[i] \in {"finally", "returned"}
        /\ spc[i] = "returned" =>
               /\ sresult[i] # <<>>
               /\ OneVariant(sresult[i][1])
               /\ failed[i] # "" =>
                      /\ ~sresult[i][1].success
                      /\ sresult[i][1].error # ""

\* the call returned a Failure after _fill_form_and_search raised because
\* the page had no submit button
C21_Witness ==
    \E i \in Searches :
        /\ spc[i] = "returned"
        /\ failed[i] = "submit"
        /\ form_exit[i] = "raised"
        /\ sresult[i] = <<[success |-> FALSE,
                           error |-> "Form submission failed: Submit button not found"]>>

\* C22: a driver created by search_case is quit exactly once, before
\* search_case returns, on every path: no call returns with a live driver,
\* and none quits a driver twice or quits without having created one.
C22_DriverQuitOnce ==
    \A i \in Searches :
        /\ quits[i] = IF driver[i] = "quit" THEN 1 ELSE 0
        /\ spc[i] = "idle" => driver[i] = "none"
        /\ spc[i] = "returned" => driver[i] # "live"
        /\ (spc[i] \notin {"idle", "finally", "returned"}) => driver[i] = "live"

\* the call returned the Failure of the CAPTCHA step with its driver quit
C22_Witness ==
    \E i \in Searches :
        /\ spc[i] = "returned"
        /\ failed[i] = "captcha"
        /\ driver[i] = "quit"
        /\ quits[i] = 1

\* value is four characters, each a digit
FourDigits(value) ==
    /\ Len(value) = 4
    /\ \A n \in 1..4 :
           SubSeq(value, n, n) \in {"0", "1", "2", "3", "4", "5", "6", "7", "8", "9"}

\* the value read from the page was well-formed and typed into an input
\* found by one of the CAPTCHA field selectors
CaptchaEntered(i) ==
    /\ captcha_value[i] # <<>>
    /\ FourDigits(captcha_value[i][1])
    /\ typed[i] # <<>>
    /\ typed[i][1].value = captcha_value[i][1]
    /\ typed[i][1].selector \in
           {"//input[@name='captcha']", "//input[contains(@placeholder, 'captcha')]",
            "//input[contains(@id, 'captcha')]", "//input[@type='text']"}

\* call i got as far as _handle_captcha
CaptchaReached(i) ==
    spc[i] \notin {"idle", "navigate", "form", "captcha", "captcha_field"}
        /\ failed[i] \notin {"driver", "navigation", "form"}

\* C23: the submit button is clicked, and the result page parsed, only after
\* the CAPTCHA value read from the page was non-empty, four characters, all
\* digits, and was typed into a CAPTCHA input field; when one of these fails
\* _fill_form_and_search returns a Failure and the button is not clicked.
C23_CaptchaBeforeSubmit ==
    \A i \in Searches :
        /\ (clicked[i] \/ parsed[i] \/ spc[i] \in {"submit", "parse"}) => CaptchaEntered(i)
        /\ parsed[i] => clicked[i]
        /\ (CaptchaReached(i) /\ ~CaptchaEntered(i)) =>
               /\ ~clicked[i]
               /\ ~parsed[i]
               /\ form_exit[i] = "returned"
               /\ pending[i] # <<>>
               /\ ~pending[i][1].success

\* the page was parsed after the value " 4821 " of the span was trimmed and
\* typed into the input found by the last selector
C23_Witness ==
    \E i \in Searches :
        /\ parsed[i]
        /\ clicked[i]
        /\ typed[i] = <<[selector |-> "//input[@type='text']", value |-> "4821"]>>

=============================================================================
